---- MODULE Spec2Model ----
(***************************************************************************)
(* StrMPoleSymplectic4Pass: the fourth-order symplectic pass of a straight *)
(* multipole element over a batch of particles.                            *)
(*                                                                         *)
(* The coefficients of the scheme are C doubles: they are modelled as IEEE *)
(* binary64 values (sign, 53-bit mantissa, exponent) over 140-bit natural  *)
(* numbers, with round-to-nearest-even.  Particle coordinates are modelled *)
(* on a fixed-point grid of resolution 1/Scale with a not-a-number         *)
(* element.                                                                *)
(***************************************************************************)
EXTENDS Integers, Sequences, FiniteSets, TLC

(***************************************************************************)
(* Natural numbers below 2^140: ten limbs of fourteen bits, the least      *)
(* significant first.  Every operation is a limb-wise formula; carries are *)
(* found by looking back over the lower limbs.  The operations are         *)
(* functions, so that an operand is a value before the operation starts.   *)
(***************************************************************************)
Scale == 10000

LimbBits == 14

Base == 2^LimbBits

Limbs == 1..10

\* the limbs f[i] as a tuple, and their sum
Vec(f) == <<f[1], f[2], f[3], f[4], f[5], f[6], f[7], f[8], f[9], f[10]>>

Sum(f) == f[1] + f[2] + f[3] + f[4] + f[5] + f[6] + f[7] + f[8] + f[9] + f[10]

BZero == Vec([i \in Limbs |-> 0])

Num == [Limbs -> 0..(Base - 1)]

\* the number v, 0 <= v < Base
BSmall(v) == Vec([i \in Limbs |-> IF i = 1 THEN v ELSE 0])

BOne == BSmall(1)

BLimb(a, i) == IF i \in DOMAIN a THEN a[i] ELSE 0

Max(S) == CHOOSE x \in S : \A y \in S : y <= x

\* -1, 0, 1 as a < b, a = b, a > b
BCmp[a \in Num, b \in Num] ==
    LET df == {i \in DOMAIN a : a[i] # b[i]}
    IN  IF df = {} THEN 0 ELSE IF a[Max(df)] < b[Max(df)] THEN -1 ELSE 1

\* the number of bits of a limb, and of a number
BitsOf(v) == CHOOSE n \in 0..LimbBits : v < 2^n /\ (n = 0 \/ v >= 2^(n - 1))

BLen[a \in Num] ==
    LET nz == {i \in DOMAIN a : a[i] # 0}
    IN  IF nz = {} THEN 0 ELSE LimbBits * (Max(nz) - 1) + BitsOf(a[Max(nz)])

BOdd[a \in Num] == a[1] % 2 = 1

\* a \div 2^n
BShiftRight[a \in Num, n \in Nat] ==
    LET q  == n \div LimbBits
        lo == n % LimbBits
    IN  Vec([i \in Limbs |-> BLimb(a, i + q) \div 2^lo
                              + (BLimb(a, i + q + 1) % 2^lo) * 2^(LimbBits - lo)])

\* a * 2^n, for a product below 2^140
BShiftLeft[a \in Num, n \in Nat] ==
    LET q  == n \div LimbBits
        lo == n % LimbBits
    IN  Vec([i \in Limbs |-> (BLimb(a, i - q) % 2^(LimbBits - lo)) * 2^lo
                              + BLimb(a, i - q - 1) \div 2^(LimbBits - lo)])

\* a % 2^n = 0
BLowZero[a \in Num, n \in Nat] ==
    /\ \A i \in 1..(n \div LimbBits) : BLimb(a, i) = 0
    /\ BLimb(a, n \div LimbBits + 1) % 2^(n % LimbBits) = 0

\* a + b, below 2^140; s holds the limb sums, and limb i receives a carry
\* when a lower limb overflows and every limb between passes the carry on
BAdd[a \in Num, b \in Num] ==
    LET s == Vec([i \in Limbs |-> a[i] + b[i]])
        carry(i) == \E j \in 1..(i - 1) :
                        /\ s[j] >= Base
                        /\ \A t \in (j + 1)..(i - 1) : s[t] = Base - 1
    IN  Vec([i \in Limbs |-> (s[i] + (IF carry(i) THEN 1 ELSE 0)) % Base])

\* a - b for a >= b, with the borrows found the same way
BSub[a \in Num, b \in Num] ==
    LET df == Vec([i \in Limbs |-> a[i] - b[i]])
        borrow(i) == \E j \in 1..(i - 1) :
                        /\ df[j] < 0
                        /\ \A t \in (j + 1)..(i - 1) : df[t] = 0
    IN  Vec([i \in Limbs |-> (df[i] + Base - (IF borrow(i) THEN 1 ELSE 0)) % Base])

\* a * d for 0 <= d < Base
BMulSmall[a \in Num, d \in Nat] ==
    LET p == Vec([i \in Limbs |-> a[i] * d])
    IN  BAdd[Vec([i \in Limbs |-> p[i] % Base]),
             Vec([i \in Limbs |-> BLimb(p, i - 1) \div Base])]

\* a * b for a, b below 2^56: the column sums of the limb products, below
\* 2^30, split into three numbers
BMul[a \in Num, b \in Num] ==
    LET term(i, n) == IF n + 1 - i \in 1..4 THEN a[i] * b[n + 1 - i] ELSE 0
        col == Vec([n \in Limbs |-> term(1, n) + term(2, n) + term(3, n) + term(4, n)])
    IN  BAdd[BAdd[Vec([i \in Limbs |-> col[i] % Base]),
                  Vec([i \in Limbs |-> (BLimb(col, i - 1) \div Base) % Base])],
             Vec([i \in Limbs |-> BLimb(col, i - 2) \div (Base * Base)])]

\* Base^n % d
BPowMod[d \in Nat, n \in Nat] ==
    IF n = 0 THEN 1 % d ELSE (BPowMod[d, n - 1] * (Base % d)) % d

\* <<quotient, remainder>> of a by d, 0 < d <= Scale; above(i) is the
\* remainder the long division carries into limb i
BDivSmall[a \in Num, d \in Nat] ==
    LET above(i) == Sum([j \in Limbs |-> IF j > i THEN a[j] * BPowMod[d, j - i - 1]
                                          ELSE 0]) % d
    IN  <<Vec([i \in Limbs |-> (above(i) * Base + a[i]) \div d]), above(0)>>

\* the number of the decimal digit groups q[1..n], four digits each
BFromDigits[q \in Seq(Nat), n \in Nat] ==
    IF n = 0 THEN BZero ELSE BAdd[BMulSmall[BFromDigits[q, n - 1], Scale], BSmall(q[n])]

\* <<a \div Scale^n, whether the division is exact>>
BDropDigits[a \in Num, n \in Nat] ==
    IF n = 0 THEN <<a, TRUE>>
    ELSE LET qr   == BDivSmall[a, Scale]
             rest == BDropDigits[qr[1], n - 1]
         IN  <<rest[1], rest[2] /\ qr[2] = 0>>

(***************************************************************************)
(* IEEE binary64 values s * m * 2^e with m = 0 or 2^52 <= m < 2^53, and    *)
(* the correctly rounded operations of the C expressions (round to         *)
(* nearest, ties to even).  Subnormals, infinities and exponent overflow   *)
(* do not occur for the element lengths of the model.                      *)
(***************************************************************************)
MantBits == 53

P52 == BShiftLeft[BOne, MantBits - 1]

FZero == [s |-> 1, m |-> BZero, e |-> 0]

\* sign * mant * 2^e rounded to 53 bits; inexact tells that mant was itself
\* cut off below (it then has more than 54 bits)
FRound(sign, mant, e, inexact) ==
    LET n == BLen[mant]
    IN  IF n = 0 THEN FZero
        ELSE IF n <= MantBits
        THEN [s |-> sign, m |-> BShiftLeft[mant, MantBits - n], e |-> e - (MantBits - n)]
        ELSE LET sh == n - MantBits
                 q  == BShiftRight[mant, sh]
                 g  == BOdd[BShiftRight[mant, sh - 1]]
                 st == inexact \/ ~BLowZero[mant, sh - 1]
                 m1 == IF g /\ (st \/ BOdd[q]) THEN BAdd[q, BOne] ELSE q
             IN  IF BLen[m1] > MantBits
                 THEN [s |-> sign, m |-> P52, e |-> e + sh + 1]
                 ELSE [s |-> sign, m |-> m1, e |-> e + sh]

\* the double nearest to the decimal literal sign * ip.frac, frac given as
\* groups of four decimal digits; ip.frac is at least 1/8 and below 2^9
FromDecimal(sign, ip, frac) ==
    LET qe == BDropDigits[BShiftLeft[BFromDigits[<<ip>> \o frac, Len(frac) + 1], 60],
                          Len(frac)]
    IN  FRound(sign, qe[1], -60, ~qe[2])

\* the double of an int n, -Base < n < Base
FromInt(n) == FRound(IF n < 0 THEN -1 ELSE 1, BSmall(IF n < 0 THEN -n ELSE n), 0, FALSE)

FMul(x, y) == FRound(x.s * y.s, BMul[x.m, y.m], x.e + y.e, FALSE)

\* x / n for an int n, 0 < n <= 64, converted to double by the division
FDivInt(x, n) ==
    LET qr == BDivSmall[BShiftLeft[x.m, 8], n]
    IN  FRound(x.s, qr[1], x.e - 8, qr[2] # 0)

\* x + y, for exponents at most 80 apart
FAdd(x, y) ==
    IF x.m = BZero THEN y
    ELSE IF y.m = BZero THEN x
    ELSE LET e0 == IF x.e < y.e THEN x.e ELSE y.e
             ax == BShiftLeft[x.m, x.e - e0]
             ay == BShiftLeft[y.m, y.e - e0]
         IN  IF x.s = y.s THEN FRound(x.s, BAdd[ax, ay], e0, FALSE)
             ELSE IF BCmp[ax, ay] >= 0 THEN FRound(x.s, BSub[ax, ay], e0, FALSE)
             ELSE FRound(y.s, BSub[ay, ax], e0, FALSE)

FIsPow2(x) == x.m = P52

\* the double on the coordinate grid: s * floor(m * 2^e * Scale), for
\* values below 2^31 / Scale
ToFix(x) ==
    LET a == BMulSmall[x.m, Scale]
        v == IF x.e >= 0 THEN BShiftLeft[a, x.e] ELSE BShiftRight[a, -x.e]
    IN  x.s * (v[1] + Base * v[2] + Base * Base * v[3])

(***************************************************************************)
(* The scheme's constants, as the decimal literals of the source.          *)
(***************************************************************************)
DRIFT1 == FromDecimal(1, 0, <<6756, 0359, 5979, 8286, 6380>>)
DRIFT2 == FromDecimal(-1, 0, <<1756, 0359, 5979, 8286, 6390>>)
KICK1 == FromDecimal(1, 1, <<3512, 0719, 1959, 6573, 2800>>)
KICK2 == FromDecimal(-1, 1, <<7024, 1438, 3919, 3146, 5600>>)

(***************************************************************************)
(* Coordinates: a particle is six values (x, px, y, py, delta, ct), C's    *)
(* r6[0..5] being r6[1..6] here.  A value is an integer number of 1/Scale  *)
(* units, or NaN.  Arithmetic propagates NaN and every comparison with NaN *)
(* is false, as in C.  The inputs keep 1 + delta away from zero and every  *)
(* value finite.                                                           *)
(***************************************************************************)
NaN == -999999999

NULL == <<>>

atIsNaN(v) == v = NaN

Abs(n) == IF n < 0 THEN -n ELSE n

\* n / d truncated toward zero
QDiv(n, d) == IF (n < 0) = (d < 0) THEN Abs(n) \div Abs(d) ELSE -(Abs(n) \div Abs(d))

Add(a, b) == IF atIsNaN(a) \/ atIsNaN(b) THEN NaN ELSE a + b
Sub(a, b) == IF atIsNaN(a) \/ atIsNaN(b) THEN NaN ELSE a - b
Mul(a, b) == IF atIsNaN(a) \/ atIsNaN(b) THEN NaN ELSE QDiv(a * b, Scale)
Div(a, b) == IF atIsNaN(a) \/ atIsNaN(b) THEN NaN ELSE QDiv(a * Scale, b)
Lt(a, b) == ~atIsNaN(a) /\ ~atIsNaN(b) /\ a < b
Ge(a, b) == ~atIsNaN(a) /\ ~atIsNaN(b) /\ a >= b

One == Scale

(***************************************************************************)
(* The primitives the pass calls (atelem.c, atlalib.c, driftkick.c,        *)
(* quadfringe.c), to their contracts.                                      *)
(***************************************************************************)
ATaddvv(x, dr) == [i \in 1..6 |-> Add(x[i], dr[i])]

\* x := M x, M a 6x6 matrix stored by columns
RECURSIVE RowSum(_, _, _, _)
RowSum(M, x, i, j) ==
    IF j > 6 THEN 0 ELSE Add(Mul(M[(j - 1) * 6 + i], x[j]), RowSum(M, x, i, j + 1))

ATmultmv(x, M) == [i \in 1..6 |-> RowSum(M, x, i, 1)]

markaslost(x) == [x EXCEPT ![1] = NaN]

checkiflostRectangularAp(x, lim) ==
    IF Lt(x[1], lim[1]) \/ Lt(lim[2], x[1]) \/ Lt(x[3], lim[3]) \/ Lt(lim[4], x[3])
    THEN markaslost(x) ELSE x

checkiflostEllipticalAp(x, axes) ==
    LET xnorm == Div(x[1], axes[1])
        znorm == Div(x[3], axes[2])
    IN  IF Ge(Add(Mul(xnorm, xnorm), Mul(znorm, znorm)), One) THEN markaslost(x) ELSE x

fastdrift(x, NormL) ==
    [x EXCEPT ![1] = Add(x[1], Mul(NormL, x[2])),
              ![3] = Add(x[3], Mul(NormL, x[4])),
              ![6] = Add(x[6], Div(Mul(NormL, Add(Mul(x[2], x[2]), Mul(x[4], x[4]))),
                                   Mul(2 * One, Add(One, x[5]))))]

\* Horner evaluation of the complex multipole polynomial; A[i+1], B[i+1] are
\* C's A[i], B[i]
RECURSIVE MPoleSum(_, _, _, _, _, _)
MPoleSum(x, A, B, i, ReSum, ImSum) ==
    IF i < 0 THEN <<ReSum, ImSum>>
    ELSE MPoleSum(x, A, B, i - 1,
                  Add(Sub(Mul(ReSum, x[1]), Mul(ImSum, x[3])), B[i + 1]),
                  Add(Add(Mul(ImSum, x[1]), Mul(ReSum, x[3])), A[i + 1]))

strthinkick(x, A, B, L, max_order) ==
    LET f == MPoleSum(x, A, B, max_order - 1, B[max_order + 1], A[max_order + 1])
    IN  [x EXCEPT ![2] = Sub(x[2], Mul(L, f[1])),
                  ![4] = Add(x[4], Mul(L, f[2]))]

\* hard-edge quadrupole fringe, sign = 1 at the entrance (QuadFringePassP),
\* -1 at the exit (QuadFringePassN)
QuadFringe(x, b2, sign) ==
    LET u  == Div(sign * b2, Mul(12 * One, Add(One, x[5])))
        x2 == Mul(x[1], x[1])
        z2 == Mul(x[3], x[3])
        xz == Mul(x[1], x[3])
        gx == Mul(Mul(u, Add(x2, Mul(3 * One, z2))), x[1])
        gz == Mul(Mul(u, Add(z2, Mul(3 * One, x2))), x[3])
        r1tmp == Mul(Mul(3 * One, u), Sub(Mul(Mul(2 * One, x[4]), xz), Mul(Add(x2, z2), x[2])))
        r3tmp == Mul(Mul(3 * One, u), Sub(Mul(Mul(2 * One, x[2]), xz), Mul(Add(x2, z2), x[4])))
    IN  [x EXCEPT ![1] = Add(x[1], gx),
                  ![2] = Add(x[2], r1tmp),
                  ![3] = Sub(x[3], gz),
                  ![4] = Sub(x[4], r3tmp),
                  ![6] = Sub(x[6], Div(Sub(Mul(gz, x[4]), Mul(gx, x[2])), Add(One, x[5])))]

QuadFringePassP(x, b2) == QuadFringe(x, b2, 1)
QuadFringePassN(x, b2) == QuadFringe(x, b2, -1)

\* linear fringe from the field integrals: a linear map of each transverse
\* plane, the two integral vectors in opposite roles at entrance and exit
LinearFringe(x, b2, Ia, Ib) ==
    LET k == Div(b2, Add(One, x[5]))
        a == Mul(k, Ia[2])
        b == Mul(k, Ib[3])
    IN  [x EXCEPT ![1] = Add(x[1], Mul(a, x[1])),
                  ![2] = Add(Sub(x[2], Mul(a, x[2])), Mul(b, x[1])),
                  ![3] = Sub(x[3], Mul(a, x[3])),
                  ![4] = Sub(Add(x[4], Mul(a, x[4])), Mul(b, x[3]))]

linearQuadFringeElegantEntrance(x, b2, fringeIntM0, fringeIntP0) ==
    LinearFringe(x, b2, fringeIntP0, fringeIntM0)
linearQuadFringeElegantExit(x, b2, fringeIntM0, fringeIntP0) ==
    LinearFringe(x, b2, fringeIntM0, fringeIntP0)

(***************************************************************************)
(* Bounds and the inputs of the model.                                     *)
(***************************************************************************)
MaxParticles == 2
MaxSteps == 2

\* tilt of the element by an angle of cosine 0.8 and sine sn * 0.6
Tilt(sn) ==
    [n \in 1..36 |->
        LET i == ((n - 1) % 6) + 1
            j == ((n - 1) \div 6) + 1
        IN  IF i = j THEN (IF i <= 4 THEN 8000 ELSE One)
            ELSE IF i <= 2 /\ j = i + 2 THEN sn * 6000
            ELSE IF j <= 2 /\ i = j + 2 THEN -sn * 6000
            ELSE 0]

\* element lengths: quarters, and two lengths no double holds exactly
Lengths == {FromDecimal(1, ip, <<fr>>) : ip \in 0..3, fr \in {0, 2500, 5000, 3000, 9000}}
              \ {FZero}
PolynomAVal == <<0, 0>>
IntM0Val == <<0, 1000, 500, 0, 0>>
IntP0Val == <<0, 2000, 300, 0, 0>>
T1Val == <<10, 0, -10, 0, 0, 0>>
T2Val == <<-10, 0, 10, 0, 0, 0>>
RApVal == <<-One, One, -One, One>>
EApVal == <<15000, One>>

OptionalOf(v) == {NULL, v}

\* fringe modes and integral vectors in every combination; with PolynomB[1]
\* zero, the two modes
FringeElems ==
    {[Length |-> FromInt(1), PolynomA |-> PolynomAVal, PolynomB |-> <<0, 5000>>,
      MaxOrder |-> 1, NumIntSteps |-> n,
      FringeQuadEntrance |-> fe, FringeQuadExit |-> fx,
      fringeIntM0 |-> im, fringeIntP0 |-> ip,
      R1 |-> NULL, R2 |-> NULL, T1 |-> NULL, T2 |-> NULL,
      RApertures |-> NULL, EApertures |-> NULL] :
        n \in 1..MaxSteps, fe \in 0..2, fx \in 0..2,
        im \in OptionalOf(IntM0Val), ip \in OptionalOf(IntP0Val)}
    \cup
    {[Length |-> FromInt(1), PolynomA |-> PolynomAVal, PolynomB |-> <<0, 0>>,
      MaxOrder |-> 1, NumIntSteps |-> n,
      FringeQuadEntrance |-> f, FringeQuadExit |-> f,
      fringeIntM0 |-> IntM0Val, fringeIntP0 |-> IntP0Val,
      R1 |-> NULL, R2 |-> NULL, T1 |-> NULL, T2 |-> NULL,
      RApertures |-> NULL, EApertures |-> NULL] :
        n \in 1..MaxSteps, f \in 1..2}

\* misalignments and apertures in every combination, one slice of length 0.9
FrameElems ==
    {[Length |-> FromDecimal(1, 0, <<9000>>), PolynomA |-> PolynomAVal,
      PolynomB |-> <<0, 5000>>, MaxOrder |-> 1, NumIntSteps |-> 1,
      FringeQuadEntrance |-> 1, FringeQuadExit |-> 1,
      fringeIntM0 |-> NULL, fringeIntP0 |-> NULL,
      R1 |-> r1, R2 |-> r2, T1 |-> t1, T2 |-> t2,
      RApertures |-> ra, EApertures |-> ea] :
        r1 \in OptionalOf(Tilt(1)), r2 \in OptionalOf(Tilt(-1)),
        t1 \in OptionalOf(T1Val), t2 \in OptionalOf(T2Val),
        ra \in OptionalOf(RApVal), ea \in OptionalOf(EApVal)}

\* every length, no fringe, frame or aperture
CoefElems ==
    {[Length |-> le, PolynomA |-> PolynomAVal, PolynomB |-> <<0, 0>>,
      MaxOrder |-> 1, NumIntSteps |-> n,
      FringeQuadEntrance |-> 0, FringeQuadExit |-> 0,
      fringeIntM0 |-> NULL, fringeIntP0 |-> NULL,
      R1 |-> NULL, R2 |-> NULL, T1 |-> NULL, T2 |-> NULL,
      RApertures |-> NULL, EApertures |-> NULL] :
        le \in Lengths, n \in 1..MaxSteps}

ElemSet == FringeElems \cup FrameElems

\* a particle inside the apertures, one outside them, one lost on entry
Particles == {<<5000, 1000, 2000, 0, 100, 0>>,
              <<20000, 0, 0, 500, 0, 0>>,
              <<NaN, 1000, 2000, 3000, 0, One>>}

(***************************************************************************)
(* State.  Elem is the element record trackFunction passes; r is the batch;*)
(* useLinFrEle*, SL, L1, L2, K1, K2, c are the locals of the pass; r6, m,  *)
(* norm, NormL1, NormL2 are the locals of the loop body, one copy per      *)
(* particle task (one task runs at a time in the pass itself); pcMain, pc  *)
(* and k are the position in the function, in each task's pipeline and in  *)
(* the slice.  rIn, trace, visits and mark record the history: the batch   *)
(* on entry, the calls made for each particle, how often its loop body was *)
(* entered, and the coordinates a particle had when the entrance checks    *)
(* left it lost.                                                           *)
(***************************************************************************)
VARIABLES Elem, num_particles, r,
          useLinFrEleEntrance, useLinFrEleExit, SL, L1, L2, K1, K2, c,
          r6, m, norm, NormL1, NormL2,
          pcMain, pc, k,
          rIn, trace, visits, mark

params == <<Elem, num_particles>>
coefs == <<useLinFrEleEntrance, useLinFrEleExit, SL, L1, L2, K1, K2>>
locals == <<r6, m, norm, NormL1, NormL2>>
vars == <<Elem, num_particles, r, useLinFrEleEntrance, useLinFrEleExit, SL, L1, L2,
          K1, K2, c, r6, m, norm, NormL1, NormL2, pcMain, pc, k, rIn, trace, visits,
          mark>>

Index == 0..(num_particles - 1)

InitWith(elems, counts) ==
    /\ Elem \in elems
    /\ num_particles \in counts
    /\ r \in [0..(num_particles - 1) -> Particles]
    /\ useLinFrEleEntrance = FALSE /\ useLinFrEleExit = FALSE
    /\ SL = FZero /\ L1 = FZero /\ L2 = FZero /\ K1 = FZero /\ K2 = FZero
    /\ c = 0
    /\ r6 = [p \in Index |-> 0]
    /\ m = [p \in Index |-> 0]
    /\ norm = [p \in Index |-> 0]
    /\ NormL1 = [p \in Index |-> 0]
    /\ NormL2 = [p \in Index |-> 0]
    /\ pcMain = "entry"
    /\ pc = [p \in Index |-> "idle"]
    /\ k = [p \in Index |-> 0]
    /\ rIn = r
    /\ trace = [p \in Index |-> <<>>]
    /\ visits = [p \in Index |-> 0]
    /\ mark = [p \in Index |-> <<>>]

Init == InitWith(ElemSet, 0..MaxParticles)

(***************************************************************************)
(* The pass.                                                               *)
(***************************************************************************)
\* the mode test dropped
UseLinFrEleAnyMode(mode) ==
    Elem.fringeIntM0 # NULL /\ Elem.fringeIntP0 # NULL /\ mode # 0

UseLinFrEle(mode) ==
    Elem.fringeIntM0 # NULL /\ Elem.fringeIntP0 # NULL /\ mode = 2

CoefL1(sl) == FMul(sl, DRIFT1)
CoefL2(sl) == FMul(sl, DRIFT2)
CoefK1(sl) == FMul(sl, KICK1)
\* the wrong constant
CoefK2FromKick1(sl) == FMul(sl, KICK1)
CoefK2(sl) == FMul(sl, KICK2)

\* the declarations' initialisers and the coefficients
Begin ==
    /\ pcMain = "entry"
    /\ useLinFrEleEntrance' = UseLinFrEle(Elem.FringeQuadEntrance)
    /\ useLinFrEleExit' = UseLinFrEle(Elem.FringeQuadExit)
    /\ SL' = FDivInt(Elem.Length, Elem.NumIntSteps)
    /\ L1' = CoefL1(SL')
    /\ L2' = CoefL2(SL')
    /\ K1' = CoefK1(SL')
    /\ K2' = CoefK2(SL')
    /\ c' = 0
    /\ pcMain' = "loop"
    /\ UNCHANGED <<params, r, locals, pc, k, rIn, trace, visits, mark>>

\* the exit shift before the exit transform
StageOrderShiftFirst == <<"T1", "R1", "RApIn", "EApIn", "FringeIn", "Integrator",
                          "FringeOut", "RApOut", "EApOut", "T2", "R2">>

\* the stages of the loop body in the order of its statements
StageOrder == <<"T1", "R1", "RApIn", "EApIn", "FringeIn", "Integrator",
                "FringeOut", "RApOut", "EApOut", "R2", "T2">>

StageAfter(site) ==
    LET i == CHOOSE j \in 1..Len(StageOrder) : StageOrder[j] = site
    IN  IF i = Len(StageOrder) THEN "done" ELSE StageOrder[i + 1]

\* the condition of a stage's if
StageOn(site) ==
    CASE site = "T1" -> Elem.T1 # NULL
      [] site = "R1" -> Elem.R1 # NULL
      [] site \in {"RApIn", "RApOut"} -> Elem.RApertures # NULL
      [] site \in {"EApIn", "EApOut"} -> Elem.EApertures # NULL
      [] site = "FringeIn" -> Elem.FringeQuadEntrance # 0 /\ Elem.PolynomB[2] # 0
      [] site = "FringeOut" -> Elem.FringeQuadExit # 0 /\ Elem.PolynomB[2] # 0
      [] site = "R2" -> Elem.R2 # NULL
      [] site = "T2" -> Elem.T2 # NULL

\* the function a stage calls
StageFn(site) ==
    CASE site \in {"T1", "T2"} -> "ATaddvv"
      [] site \in {"R1", "R2"} -> "ATmultmv"
      [] site \in {"RApIn", "RApOut"} -> "checkiflostRectangularAp"
      [] site \in {"EApIn", "EApOut"} -> "checkiflostEllipticalAp"
      [] site = "FringeIn" -> IF useLinFrEleEntrance
                              THEN "linearQuadFringeElegantEntrance"
                              ELSE "QuadFringePassP"
      [] site = "FringeOut" -> IF useLinFrEleExit
                               THEN "linearQuadFringeElegantExit"
                               ELSE "QuadFringePassN"

\* the coordinates the call leaves
StageEffect(site, x) ==
    CASE site = "T1" -> ATaddvv(x, Elem.T1)
      [] site = "R1" -> ATmultmv(x, Elem.R1)
      [] site \in {"RApIn", "RApOut"} -> checkiflostRectangularAp(x, Elem.RApertures)
      [] site \in {"EApIn", "EApOut"} -> checkiflostEllipticalAp(x, Elem.EApertures)
      [] site = "FringeIn" ->
            IF useLinFrEleEntrance
            THEN linearQuadFringeElegantEntrance(x, Elem.PolynomB[2],
                                                 Elem.fringeIntM0, Elem.fringeIntP0)
            ELSE QuadFringePassP(x, Elem.PolynomB[2])
      [] site = "FringeOut" ->
            IF useLinFrEleExit
            THEN linearQuadFringeElegantExit(x, Elem.PolynomB[2],
                                             Elem.fringeIntM0, Elem.fringeIntP0)
            ELSE QuadFringePassN(x, Elem.PolynomB[2])
      [] site = "R2" -> ATmultmv(x, Elem.R2)
      [] site = "T2" -> ATaddvv(x, Elem.T2)

\* one call on the coordinates r6 points at, recorded in the task's trace
Call(p, site, fn, arg, out) ==
    /\ r' = [r EXCEPT ![r6[p]] = out]
    /\ trace' = [trace EXCEPT ![p] = Append(@, [site |-> site, fn |-> fn, arg |-> arg])]

At(p, site) == pcMain = "loop" /\ pc[p] = site

Stage(p, site) ==
    /\ At(p, site)
    /\ IF StageOn(site)
       THEN Call(p, site, StageFn(site), 0, StageEffect(site, r[r6[p]]))
       ELSE UNCHANGED <<r, trace>>
    /\ pc' = [pc EXCEPT ![p] = StageAfter(site)]
    /\ UNCHANGED <<params, coefs, c, locals, pcMain, k, rIn, visits>>

\* r6 = r, the offset dropped
BlockOfFirst(p) == 0

\* r6 = r+c*6 for particle c
BlockOf(p) == p

\* the loop body is entered for particle p
Enter(p) ==
    /\ At(p, "idle")
    /\ r6' = [r6 EXCEPT ![p] = BlockOf(p)]
    /\ visits' = [visits EXCEPT ![p] = @ + 1]
    /\ pc' = [pc EXCEPT ![p] = "sentinel"]
    /\ UNCHANGED <<params, coefs, c, r, m, norm, NormL1, NormL2, pcMain, k, rIn, trace,
                   mark>>

\* the wrong coordinate tested
LostBySixth(x) == atIsNaN(x[6])

Lost(x) == atIsNaN(x[1])

\* if(!atIsNaN(r6[0]))
SentinelCheck(p) ==
    /\ At(p, "sentinel")
    /\ pc' = [pc EXCEPT ![p] = IF Lost(r[r6[p]]) THEN "done" ELSE StageOrder[1]]
    /\ UNCHANGED <<params, coefs, c, r, locals, pcMain, k, rIn, trace, visits, mark>>

EntranceShift(p) == Stage(p, "T1") /\ UNCHANGED mark
EntranceTransform(p) == Stage(p, "R1") /\ UNCHANGED mark
EntranceRectangularAp(p) == Stage(p, "RApIn") /\ UNCHANGED mark
EntranceEllipticalAp(p) ==
    /\ Stage(p, "EApIn")
    /\ mark' = [mark EXCEPT ![p] = IF Lost(r'[r6[p]])
                                   THEN <<[r6 |-> r'[r6[p]], calls |-> Len(trace'[p])]>>
                                   ELSE <<>>]
EntranceFringe(p) == Stage(p, "FringeIn") /\ UNCHANGED mark
ExitFringe(p) == Stage(p, "FringeOut") /\ UNCHANGED mark
ExitRectangularAp(p) == Stage(p, "RApOut") /\ UNCHANGED mark
ExitEllipticalAp(p) == Stage(p, "EApOut") /\ UNCHANGED mark
ExitTransform(p) == Stage(p, "R2") /\ UNCHANGED mark
ExitShift(p) == Stage(p, "T2") /\ UNCHANGED mark

\* the two kick strengths exchanged
SliceProgramKicksExchanged ==
    << [fn |-> "fastdrift",   by |-> "NormL1"],
       [fn |-> "strthinkick", by |-> "K2"],
       [fn |-> "fastdrift",   by |-> "NormL2"],
       [fn |-> "strthinkick", by |-> "K1"],
       [fn |-> "fastdrift",   by |-> "NormL2"],
       [fn |-> "strthinkick", by |-> "K2"],
       [fn |-> "fastdrift",   by |-> "NormL1"] >>

\* a fourth kick in the slice
SliceProgramFourKicks ==
    << [fn |-> "fastdrift",   by |-> "NormL1"],
       [fn |-> "strthinkick", by |-> "K1"],
       [fn |-> "fastdrift",   by |-> "NormL2"],
       [fn |-> "strthinkick", by |-> "K2"],
       [fn |-> "fastdrift",   by |-> "NormL2"],
       [fn |-> "strthinkick", by |-> "K2"],
       [fn |-> "fastdrift",   by |-> "NormL1"],
       [fn |-> "strthinkick", by |-> "K1"] >>

\* the statements of one slice after its normalisation
SliceProgram ==
    << [fn |-> "fastdrift",   by |-> "NormL1"],
       [fn |-> "strthinkick", by |-> "K1"],
       [fn |-> "fastdrift",   by |-> "NormL2"],
       [fn |-> "strthinkick", by |-> "K2"],
       [fn |-> "fastdrift",   by |-> "NormL2"],
       [fn |-> "strthinkick", by |-> "K1"],
       [fn |-> "fastdrift",   by |-> "NormL1"] >>

\* m = 0 of the slice loop
IntegratorEnter(p) ==
    /\ At(p, "Integrator")
    /\ m' = [m EXCEPT ![p] = 0]
    /\ pc' = [pc EXCEPT ![p] = "SliceTop"]
    /\ UNCHANGED <<params, coefs, c, r, r6, norm, NormL1, NormL2, pcMain, k, rIn, trace,
                   visits, mark>>

NormOf(x) == Div(One, Add(One, x[5]))

\* m < num_int_steps, and the slice's r6, norm, NormL1, NormL2
SliceTop(p) ==
    /\ At(p, "SliceTop")
    /\ IF m[p] < Elem.NumIntSteps
       THEN /\ r6' = [r6 EXCEPT ![p] = BlockOf(p)]
            /\ norm' = [norm EXCEPT ![p] = NormOf(r[r6'[p]])]
            /\ NormL1' = [NormL1 EXCEPT ![p] = Mul(ToFix(L1), norm'[p])]
            /\ NormL2' = [NormL2 EXCEPT ![p] = Mul(ToFix(L2), norm'[p])]
            /\ trace' = [trace EXCEPT ![p] =
                            Append(@, [site |-> "Integrator", fn |-> "slice",
                                       arg |-> r[r6'[p]][5]])]
            /\ k' = [k EXCEPT ![p] = 1]
            /\ pc' = [pc EXCEPT ![p] = "SliceStep"]
       ELSE /\ pc' = [pc EXCEPT ![p] = StageAfter("Integrator")]
            /\ UNCHANGED <<r6, norm, NormL1, NormL2, trace, k>>
    /\ UNCHANGED <<params, coefs, c, r, m, pcMain, rIn, visits, mark>>

StepArg(p, by) ==
    CASE by = "NormL1" -> NormL1[p]
      [] by = "NormL2" -> NormL2[p]
      [] by = "K1" -> ToFix(K1)
      [] by = "K2" -> ToFix(K2)

\* after a statement of the slice: the next one, or m++ and the loop test
SliceAdvance(p) ==
    IF k[p] = Len(SliceProgram)
    THEN /\ m' = [m EXCEPT ![p] = @ + 1]
         /\ pc' = [pc EXCEPT ![p] = "SliceTop"]
         /\ UNCHANGED k
    ELSE /\ k' = [k EXCEPT ![p] = @ + 1]
         /\ UNCHANGED <<m, pc>>

FastDrift(p) ==
    /\ At(p, "SliceStep")
    /\ SliceProgram[k[p]].fn = "fastdrift"
    /\ LET len == StepArg(p, SliceProgram[k[p]].by)
       IN  Call(p, "Integrator", "fastdrift", len, fastdrift(r[r6[p]], len))
    /\ SliceAdvance(p)
    /\ UNCHANGED <<params, coefs, c, r6, norm, NormL1, NormL2, pcMain, rIn, visits, mark>>

ThinKick(p) ==
    /\ At(p, "SliceStep")
    /\ SliceProgram[k[p]].fn = "strthinkick"
    /\ LET str == StepArg(p, SliceProgram[k[p]].by)
       IN  Call(p, "Integrator", "strthinkick", str,
                strthinkick(r[r6[p]], Elem.PolynomA, Elem.PolynomB, str, Elem.MaxOrder))
    /\ SliceAdvance(p)
    /\ UNCHANGED <<params, coefs, c, r6, norm, NormL1, NormL2, pcMain, rIn, visits, mark>>

\* c < num_particles holds: the body starts for particle c
LoopEnter == c < num_particles /\ Enter(c)

\* a lost particle ends the loop
NextIndexBreak(i) == IF atIsNaN(r[i][1]) THEN num_particles ELSE i + 1

NextIndex(i) == i + 1

\* c++ after the body of particle c
LoopNext ==
    /\ c < num_particles
    /\ At(c, "done")
    /\ c' = NextIndex(c)
    /\ UNCHANGED <<params, coefs, r, locals, pcMain, pc, k, rIn, trace, visits, mark>>

\* c < num_particles fails: the function returns
LoopExit ==
    /\ pcMain = "loop"
    /\ c >= num_particles
    /\ pcMain' = "return"
    /\ UNCHANGED <<params, coefs, c, r, locals, pc, k, rIn, trace, visits, mark>>

\* the particle whose body is running
Current == {c} \cap Index

Next ==
    \/ Begin
    \/ LoopEnter
    \/ \E p \in Current : SentinelCheck(p)
    \/ \E p \in Current : EntranceShift(p)
    \/ \E p \in Current : EntranceTransform(p)
    \/ \E p \in Current : EntranceRectangularAp(p)
    \/ \E p \in Current : EntranceEllipticalAp(p)
    \/ \E p \in Current : EntranceFringe(p)
    \/ \E p \in Current : IntegratorEnter(p)
    \/ \E p \in Current : SliceTop(p)
    \/ \E p \in Current : FastDrift(p)
    \/ \E p \in Current : ThinKick(p)
    \/ \E p \in Current : ExitFringe(p)
    \/ \E p \in Current : ExitRectangularAp(p)
    \/ \E p \in Current : ExitEllipticalAp(p)
    \/ \E p \in Current : ExitTransform(p)
    \/ \E p \in Current : ExitShift(p)
    \/ LoopNext
    \/ LoopExit

Spec == Init /\ [][Next]_vars

\* the coefficients: calls on an empty batch, over every length
CoefInit == InitWith(CoefElems, {0})

CoefNext == Begin \/ LoopExit

CoefSpec == CoefInit /\ [][CoefNext]_vars

(***************************************************************************)
(* The loop body as a function of one particle's coordinates: the stages   *)
(* composed in their order, each applied to the value the one before left. *)
(***************************************************************************)
RunSlice[x \in Seq(Int), j \in Nat, nl1 \in Int, nl2 \in Int] ==
    IF j > Len(SliceProgram) THEN x
    ELSE LET s == SliceProgram[j]
             by == CASE s.by = "NormL1" -> nl1
                     [] s.by = "NormL2" -> nl2
                     [] s.by = "K1" -> ToFix(K1)
                     [] s.by = "K2" -> ToFix(K2)
         IN  RunSlice[IF s.fn = "fastdrift"
                      THEN fastdrift(x, by)
                      ELSE strthinkick(x, Elem.PolynomA, Elem.PolynomB, by, Elem.MaxOrder),
                      j + 1, nl1, nl2]

Integrate[x \in Seq(Int), i \in Nat] ==
    IF i >= Elem.NumIntSteps THEN x
    ELSE Integrate[RunSlice[x, 1, Mul(ToFix(L1), NormOf(x)), Mul(ToFix(L2), NormOf(x))],
                   i + 1]

RunStages[x \in Seq(Int), j \in Nat] ==
    IF j > Len(StageOrder) THEN x
    ELSE LET s == StageOrder[j]
         IN  RunStages[IF s = "Integrator" THEN Integrate[x, 0]
                       ELSE IF StageOn(s) THEN StageEffect(s, x)
                       ELSE x,
                       j + 1]

PassOne(x) == IF Lost(x) THEN x ELSE RunStages[x, 1]

(***************************************************************************)
(* The loop bodies of the particles as tasks that run in any order and     *)
(* interleave statement by statement, each with its own locals.            *)
(***************************************************************************)
ParElems ==
    {[Length |-> FromInt(1), PolynomA |-> PolynomAVal, PolynomB |-> <<0, 5000>>,
      MaxOrder |-> 1, NumIntSteps |-> 1, FringeQuadEntrance |-> f, FringeQuadExit |-> 1,
      fringeIntM0 |-> IntM0Val, fringeIntP0 |-> IntP0Val,
      R1 |-> Tilt(1), R2 |-> Tilt(-1), T1 |-> T1Val, T2 |-> T2Val,
      RApertures |-> RApVal, EApertures |-> EApVal] :
        f \in 1..2}

ParInit == InitWith(ParElems, 1..MaxParticles)

ParReturn ==
    /\ pcMain = "loop"
    /\ \A p \in Index : pc[p] = "done"
    /\ pcMain' = "return"
    /\ UNCHANGED <<params, coefs, c, r, locals, pc, k, rIn, trace, visits, mark>>

ParNext ==
    \/ Begin
    \/ \E p \in Index : Enter(p)
    \/ \E p \in Index : SentinelCheck(p)
    \/ \E p \in Index : EntranceShift(p)
    \/ \E p \in Index : EntranceTransform(p)
    \/ \E p \in Index : EntranceRectangularAp(p)
    \/ \E p \in Index : EntranceEllipticalAp(p)
    \/ \E p \in Index : EntranceFringe(p)
    \/ \E p \in Index : IntegratorEnter(p)
    \/ \E p \in Index : SliceTop(p)
    \/ \E p \in Index : FastDrift(p)
    \/ \E p \in Index : ThinKick(p)
    \/ \E p \in Index : ExitFringe(p)
    \/ \E p \in Index : ExitRectangularAp(p)
    \/ \E p \in Index : ExitEllipticalAp(p)
    \/ \E p \in Index : ExitTransform(p)
    \/ \E p \in Index : ExitShift(p)
    \/ ParReturn

ParSpec == ParInit /\ [][ParNext]_vars

\* elements for the run to the return: with and without an aperture that
\* loses a particle during the call
LoopElems ==
    {[Length |-> FromInt(1), PolynomA |-> PolynomAVal, PolynomB |-> <<0, 5000>>,
      MaxOrder |-> 1, NumIntSteps |-> n, FringeQuadEntrance |-> f, FringeQuadExit |-> f,
      fringeIntM0 |-> NULL, fringeIntP0 |-> NULL,
      R1 |-> NULL, R2 |-> NULL, T1 |-> NULL, T2 |-> NULL,
      RApertures |-> ra, EApertures |-> NULL] :
        n \in 1..MaxSteps, f \in 0..1, ra \in OptionalOf(RApVal)}

FairInit == InitWith(LoopElems, 0..MaxParticles)

\* The sequential function is never suspended: as long as it has not returned
\* it takes its next step.  This is WF_vars(Next) written out, with
\* ENABLED <<Next>>_vars replaced by its value pcMain # "return" (every action
\* moves a program counter, and one is enabled in every state before return).
FairSpec ==
    /\ FairInit /\ [][Next]_vars
    /\ ([]<>(pcMain = "return") \/ []<><<Next>>_vars)

(***************************************************************************)
(* Properties.                                                             *)
(***************************************************************************)
\* the order of the pipeline's stages
PipelineOrder == <<"T1", "R1", "RApIn", "EApIn", "FringeIn", "Integrator",
                   "FringeOut", "RApOut", "EApOut", "R2", "T2">>

RankOf(site) == CHOOSE j \in 1..Len(PipelineOrder) : PipelineOrder[j] = site

\* particle p was not lost when the pass was called
Processed(p) == ~atIsNaN(rIn[p][1])

Finished(p) == pc[p] = "done"

\* the stage is behind task p
Passed(p, site) ==
    \/ pc[p] = "done"
    \/ /\ pc[p] \notin {"idle", "sentinel"}
       /\ RankOf(IF pc[p] \in {"SliceTop", "SliceStep"} THEN "Integrator" ELSE pc[p])
            > RankOf(site)

CallsAt(p, site) == {i \in DOMAIN trace[p] : trace[p][i].site = site}
CallsOf(p, fn) == {i \in DOMAIN trace[p] : trace[p][i].fn = fn}

\* C1: a particle the entrance aperture checks leave lost is not touched by
\* any later stage of the call: no further call is made for it and its six
\* coordinates stay as they were right after the checks.
CE_C1 ==
    \A p \in Index :
        mark[p] # <<>> =>
            /\ r[p] = mark[p][1].r6
            /\ Len(trace[p]) = mark[p][1].calls

\* C2: with a fringe mode of 2 and an integral vector absent, a call on at
\* least one particle modifies no coordinate and never applies the hard-edge
\* model in place of the linear-integral one.
Misconfigured ==
    /\ Elem.FringeQuadEntrance = 2 \/ Elem.FringeQuadExit = 2
    /\ Elem.fringeIntM0 = NULL \/ Elem.fringeIntP0 = NULL

CE_C2 ==
    (Misconfigured /\ num_particles >= 1) =>
        /\ r = rIn
        /\ \A p \in Index :
              /\ Elem.FringeQuadEntrance = 2 => CallsOf(p, "QuadFringePassP") = {}
              /\ Elem.FringeQuadExit = 2 => CallsOf(p, "QuadFringePassN") = {}

\* C3: a particle whose r6[0] is not-a-number on entry keeps its six
\* coordinates throughout the call and no stage is applied to it, whatever
\* the element's configuration.
Inv_C3 ==
    \A p \in Index :
        atIsNaN(rIn[p][1]) =>
            /\ r[p] = rIn[p]
            /\ trace[p] = <<>>
            /\ pc[p] \in {"idle", "sentinel", "done"}

Wit_C3 ==
    /\ pcMain = "return"
    /\ num_particles = 2
    /\ atIsNaN(rIn[0][1])
    /\ Elem.T1 # NULL /\ Elem.R1 # NULL /\ Elem.RApertures # NULL
    /\ Elem.FringeQuadEntrance # 0
    /\ trace[1] # <<>>

\* C4 as stated: 2*DRIFT1 + 2*DRIFT2 = 1 and 2*KICK1 + 2*KICK2 = 1, and for
\* every Length and NumIntSteps 2*L1 + 2*L2 = SL and 2*K1 + 2*K2 = SL.
FTwice(x) == FMul(FromInt(2), x)

DriftSum == FAdd(FTwice(DRIFT1), FTwice(DRIFT2))
KickSumStated == FAdd(FTwice(KICK1), FTwice(KICK2))
KickSum == FAdd(FTwice(KICK1), KICK2)

CE_C4 ==
    pcMain # "entry" =>
        /\ DriftSum = FromInt(1)
        /\ KickSumStated = FromInt(1)
        /\ FAdd(FTwice(L1), FTwice(L2)) = SL
        /\ FAdd(FTwice(K1), FTwice(K2)) = SL

\* C4 amended: in double arithmetic 2*DRIFT1 + 2*DRIFT2 = 1 and
\* 2*KICK1 + KICK2 = 1, and when Length/NumIntSteps is a power of two
\* 2*L1 + 2*L2 = SL and 2*K1 + K2 = SL.
Thm_C4 ==
    pcMain # "entry" =>
        /\ DriftSum = FromInt(1)
        /\ KickSum = FromInt(1)
        /\ FIsPow2(SL) =>
              /\ FAdd(FTwice(L1), FTwice(L2)) = SL
              /\ FAdd(FTwice(K1), K2) = SL

Wit_C4 ==
    /\ pcMain = "return"
    /\ Elem.NumIntSteps > 1
    /\ FIsPow2(SL)
    /\ FAdd(FTwice(K1), K2) = SL

\* C5: for every particle that reaches the integrator, the calls of the
\* slice loop are drift(L1*norm), kick(K1), drift(L2*norm), kick(K2),
\* drift(L2*norm), kick(K1), drift(L1*norm), NumIntSteps times, nothing else
\* between them, norm being 1/(1+delta) of the particle's delta at the start
\* of the slice.
ExpectedSlice(delta, fl1, fl2, fk1, fk2) ==
    LET nrm == Div(One, Add(One, delta))
    IN  << <<"slice", delta>>,
           <<"fastdrift", Mul(fl1, nrm)>>,
           <<"strthinkick", fk1>>,
           <<"fastdrift", Mul(fl2, nrm)>>,
           <<"strthinkick", fk2>>,
           <<"fastdrift", Mul(fl2, nrm)>>,
           <<"strthinkick", fk1>>,
           <<"fastdrift", Mul(fl1, nrm)>> >>

SliceLen == Len(ExpectedSlice(0, 0, 0, 0, 0))

Thm_C5 ==
    LET fl1 == ToFix(L1)
        fl2 == ToFix(L2)
        fk1 == ToFix(K1)
        fk2 == ToFix(K2)
    IN
    \A p \in Index :
        LET t  == trace[p]
            at == CallsAt(p, "Integrator")
            lo == IF at = {} THEN 1 ELSE CHOOSE i \in at : \A j \in at : i <= j
        IN  /\ \A i \in at :
                  /\ \A j \in lo..i : j \in at
                  /\ LET n   == i - lo
                         hd  == t[lo + (n \div SliceLen) * SliceLen]
                     IN  <<t[i].fn, t[i].arg>>
                           = ExpectedSlice(hd.arg, fl1, fl2, fk1, fk2)[(n % SliceLen) + 1]
            /\ Cardinality(at) <= SliceLen * Elem.NumIntSteps
            /\ pc[p] = "SliceStep" =>
                  t[Len(t) - k[p] + 1] = [site |-> "Integrator", fn |-> "slice",
                                          arg |-> r[p][5]]
            /\ (Processed(p) /\ Passed(p, "Integrator")) =>
                  Cardinality(at) = SliceLen * Elem.NumIntSteps

Wit_C5 ==
    \E p \in Index :
        /\ Finished(p) /\ Processed(p)
        /\ Elem.NumIntSteps > 1
        /\ rIn[p][5] # 0
        /\ CallsAt(p, "Integrator") # {}

\* C6: for every particle not lost on entry the enabled stages run in the
\* order T1, R1, rectangular check, elliptical check, entrance fringe, slice
\* loop, exit fringe, rectangular check, elliptical check, R2, T2, each at
\* most once per call, and each enabled one exactly once by the end.
StageEnabled(site) ==
    CASE site = "T1" -> Elem.T1 # NULL
      [] site = "R1" -> Elem.R1 # NULL
      [] site \in {"RApIn", "RApOut"} -> Elem.RApertures # NULL
      [] site \in {"EApIn", "EApOut"} -> Elem.EApertures # NULL
      [] site = "FringeIn" -> Elem.FringeQuadEntrance # 0 /\ Elem.PolynomB[2] # 0
      [] site = "FringeOut" -> Elem.FringeQuadExit # 0 /\ Elem.PolynomB[2] # 0
      [] site = "R2" -> Elem.R2 # NULL
      [] site = "T2" -> Elem.T2 # NULL
      [] site = "Integrator" -> TRUE

StageFns(site) ==
    CASE site \in {"T1", "T2"} -> {"ATaddvv"}
      [] site \in {"R1", "R2"} -> {"ATmultmv"}
      [] site \in {"RApIn", "RApOut"} -> {"checkiflostRectangularAp"}
      [] site \in {"EApIn", "EApOut"} -> {"checkiflostEllipticalAp"}
      [] site = "FringeIn" -> {"linearQuadFringeElegantEntrance", "QuadFringePassP"}
      [] site = "FringeOut" -> {"linearQuadFringeElegantExit", "QuadFringePassN"}
      [] site = "Integrator" -> {"slice", "fastdrift", "strthinkick"}

Thm_C6 ==
    \A p \in Index :
        LET t == trace[p]
        IN  /\ \A i \in DOMAIN t : t[i].fn \in StageFns(t[i].site)
            /\ \A i \in 1..(Len(t) - 1) :
                  \/ RankOf(t[i].site) < RankOf(t[i + 1].site)
                  \/ t[i].site = "Integrator" /\ t[i + 1].site = "Integrator"
            /\ (Finished(p) /\ Processed(p)) =>
                  \A j \in DOMAIN PipelineOrder :
                      LET site == PipelineOrder[j]
                      IN  IF site = "Integrator" THEN CallsAt(p, site) # {}
                          ELSE Cardinality(CallsAt(p, site))
                                 = IF StageEnabled(site) THEN 1 ELSE 0

Wit_C6 ==
    \E p \in Index :
        /\ Finished(p) /\ Processed(p)
        /\ \A j \in DOMAIN PipelineOrder : StageEnabled(PipelineOrder[j])
        /\ \A j \in DOMAIN PipelineOrder : CallsAt(p, PipelineOrder[j]) # {}

\* C7: the call terminates; when it returns every particle's loop body has
\* been entered exactly once and has run to its end, lost particles before
\* it or not.
Thm_C7 ==
    /\ <>(pcMain = "return")
    /\ [](\A p \in Index : visits[p] <= 1)
    /\ [](pcMain = "return" => \A p \in Index : visits[p] = 1 /\ pc[p] = "done")

Wit_C7 ==
    /\ pcMain = "return"
    /\ num_particles = 2
    /\ atIsNaN(r[0][1])
    /\ visits[1] = 1 /\ ~atIsNaN(rIn[1][1]) /\ trace[1] # <<>>

FringeRight(p, site, mode, linFn, hardFn) ==
    LET at == CallsAt(p, site)
    IN  /\ Cardinality(at) <= 1
        /\ (Processed(p) /\ Passed(p, site)) =>
              (at # {} <=> (mode # 0 /\ Elem.PolynomB[2] # 0))
        /\ \A i \in at :
              /\ trace[p][i].fn \in {linFn, hardFn}
              /\ (mode = 2 /\ Elem.fringeIntM0 # NULL /\ Elem.fringeIntP0 # NULL)
                    => trace[p][i].fn = linFn
              /\ mode = 1 => trace[p][i].fn = hardFn

CE_C10 ==
    \A p \in Index :
        (Processed(p) /\ Passed(p, "Integrator")) =>
            /\ Cardinality(CallsOf(p, "fastdrift")) = 4 * Elem.NumIntSteps
            /\ Cardinality(CallsOf(p, "strthinkick")) = 4 * Elem.NumIntSteps

\* C10 amended: each slice applies 4 drifts and 3 kicks, so a particle not
\* lost on entry receives 4*NumIntSteps drifts and 3*NumIntSteps kicks.
Thm_C10 ==
    \A p \in Index :
        /\ pc[p] = "SliceTop" =>
              /\ Cardinality(CallsOf(p, "fastdrift")) = 4 * m[p]
              /\ Cardinality(CallsOf(p, "strthinkick")) = 3 * m[p]
        /\ (Processed(p) /\ Passed(p, "Integrator")) =>
              /\ Cardinality(CallsOf(p, "fastdrift")) = 4 * Elem.NumIntSteps
              /\ Cardinality(CallsOf(p, "strthinkick")) = 3 * Elem.NumIntSteps

Wit_C10 ==
    \E p \in Index :
        /\ Finished(p) /\ Processed(p)
        /\ Elem.NumIntSteps > 1
        /\ Cardinality(CallsOf(p, "strthinkick")) = 3 * Elem.NumIntSteps

====
